---- MODULE Spec2Model ----
(***************************************************************************)
(* Model of zipline/finance/risk/risk.py: the treasury-rate resolver       *)
(* (select_treasury_duration, get_treasury_rate, choose_treasury) and the  *)
(* rolling-period decomposition of RiskReport (periods_in_range).          *)
(*                                                                         *)
(* Datetimes of the resolver are integers counting ticks, TicksPerDay      *)
(* ticks to a day, so that a time of day survives until the code           *)
(* normalises it.  An optional value is a sequence: <<>> is Python's None  *)
(* and <<v>> is the value v.  A quotient by 365 is kept as the pair        *)
(* (numerator, denominator).                                               *)
(***************************************************************************)
EXTENDS Integers, Sequences, FiniteSets, TLC

VARIABLES
    \* ---- choose_treasury -------------------------------------------------
    pc,                \* position in the operation being run
    treasury_curves,   \* the curve table: normalised date -> (duration -> optional rate)
    start_date,
    end_date,
    treasury_duration, \* local of choose_treasury
    end_day,           \* local of choose_treasury
    search_day,        \* local of choose_treasury (optional)
    rate,              \* local of choose_treasury (optional)
    search_dist,       \* local of choose_treasury (optional)
    remaining,         \* what is left of the iteration over search_days[i - 1::-1]
    consulted,         \* the days get_treasury_rate was called with, in call order
    warned,            \* log.warn was called
    result,            \* the returned value (optional)
    error,             \* the exception that left choose_treasury ("" when none)
    \* ---- RiskReport ------------------------------------------------------
    algorithm_returns, \* the dates of the daily returns, ascending
    sim_params,        \* [period_start, period_end]
    created,           \* self.created (optional before construction)
    range,             \* the start_date / end_date locals of __init__ (optional)
    month_periods,
    three_month_periods,
    six_month_periods,
    year_periods,
    exported           \* the value of to_dict() (optional)

tvars == <<treasury_curves, start_date, end_date, treasury_duration, end_day,
           search_day, rate, search_dist, remaining, consulted, warned,
           result, error>>
rvars == <<algorithm_returns, sim_params, created, range, month_periods,
           three_month_periods, six_month_periods, year_periods, exported>>
vars == <<pc, tvars, rvars>>

----------------------------------------------------------------------------
\* Bounds of the model.

\* ticks in a day: the resolution of a time of day
TicksPerDay == 2
\* the curve table's dates and end_date's day lie in 0..MaxDay
MaxDay == 2
\* a curve table holds at most MaxEntries non-absent rates
MaxEntries == 2
\* the trading calendar answers distances of magnitude at most MaxDist
MaxDist == 2
\* select_treasury_duration is explored up to MaxElapsed elapsed days
MaxElapsed == 3660

----------------------------------------------------------------------------
\* Python values.

None == <<>>

Some(v) == <<v>>

Min(a, b) == IF a < b THEN a ELSE b

TREASURY_DURATIONS ==
    << "1month", "3month", "6month",
       "1year", "2year", "3year", "5year",
       "7year", "10year", "30year" >>

\* list.index
DurationIndex(duration) ==
    CHOOSE k \in 1..Len(TREASURY_DURATIONS) : TREASURY_DURATIONS[k] = duration

\* timedelta.days of (later - earlier): the floor of the difference in days
TimedeltaDays(later, earlier) == (later - earlier) \div TicksPerDay

\* datetime.replace(hour=0, minute=0, second=0, microsecond=0)
NormalizeToMidnight(dt) == dt - (dt % TicksPerDay)

----------------------------------------------------------------------------
\* get_treasury_rate

RECURSIVE ScanDurations(_, _)
ScanDurations(curve, k) ==
    IF k > Len(TREASURY_DURATIONS) THEN None
    ELSE IF curve[TREASURY_DURATIONS[k]] # None
         THEN curve[TREASURY_DURATIONS[k]]
         ELSE ScanDurations(curve, k + 1)

\* variant: the scan starts at the shortest bucket, whatever the target
get_treasury_rate_FromShortest(curves, duration, day) ==
    ScanDurations(curves[day], 1)

get_treasury_rate(curves, duration, day) ==
    ScanDurations(curves[day], DurationIndex(duration))

----------------------------------------------------------------------------
\* select_treasury_duration

\* variant: the 3month threshold is exclusive
select_treasury_duration_Exclusive(start, end) ==
    LET days == TimedeltaDays(end, start) IN
    IF days <= 31 THEN "1month"
    ELSE IF days < 93 THEN "3month"
    ELSE IF days <= 186 THEN "6month"
    ELSE IF days <= 366 THEN "1year"
    ELSE IF days <= 365 * 2 + 1 THEN "2year"
    ELSE IF days <= 365 * 3 + 1 THEN "3year"
    ELSE IF days <= 365 * 5 + 2 THEN "5year"
    ELSE IF days <= 365 * 7 + 2 THEN "7year"
    ELSE IF days <= 365 * 10 + 2 THEN "10year"
    ELSE "30year"

select_treasury_duration(start, end) ==
    LET days == TimedeltaDays(end, start) IN
    IF days <= 31 THEN "1month"
    ELSE IF days <= 93 THEN "3month"
    ELSE IF days <= 186 THEN "6month"
    ELSE IF days <= 366 THEN "1year"
    ELSE IF days <= 365 * 2 + 1 THEN "2year"
    ELSE IF days <= 365 * 3 + 1 THEN "3year"
    ELSE IF days <= 365 * 5 + 2 THEN "5year"
    ELSE IF days <= 365 * 7 + 2 THEN "7year"
    ELSE IF days <= 365 * 10 + 2 THEN "10year"
    ELSE "30year"

----------------------------------------------------------------------------
\* The date index of the curve table and the slices taken of it.

RECURSIVE SortedSeq(_)
SortedSeq(S) ==
    IF S = {} THEN <<>>
    ELSE LET least == CHOOSE x \in S : \A y \in S : x <= y
         IN <<least>> \o SortedSeq(S \ {least})

\* treasury_curves.index
DateIndex(curves) == SortedSeq(DOMAIN curves)

\* Index.searchsorted(value), side='left', as a 0-based position: the number
\* of stored dates strictly before value
searchsorted(days, value) == Cardinality({k \in 1..Len(days) : days[k] < value})

\* days[start::-1] for a 0-based start: Python adds len to a negative start,
\* yields nothing if it is still negative, and clips it to len - 1
ReverseSliceFrom(days, start) ==
    LET n == Len(days)
        s0 == IF start < 0 THEN start + n ELSE start
        s  == Min(s0, n - 1)
    IN IF s < 0 THEN <<>> ELSE [k \in 1..(s + 1) |-> days[s + 2 - k]]

----------------------------------------------------------------------------
\* search_day_distance and the trading calendar behind it.

\* trading.environment.trading_day_distance(dt, end_date): an integer or
\* absent.  From a date at or before end_date the distance is not negative;
\* from a later date it is not positive.
trading_day_distance(dt, end) ==
    {None} \cup { Some(n) : n \in (IF dt <= end THEN 0 ELSE 0 - MaxDist) ..
                                   (IF dt <= end THEN MaxDist ELSE 0) }

\* the assertion of search_day_distance holds for the calendar's answer tdd
DistanceAssertionHolds(tdd) == tdd = None \/ tdd[1] >= 0

----------------------------------------------------------------------------
\* The inputs of choose_treasury.

Days == { d * TicksPerDay : d \in 0..MaxDay }

\* the rate stored for a date and a duration, when one is stored: distinct
\* for distinct places, 0 among them
RateAt(day, k) == (day \div TicksPerDay) * Len(TREASURY_DURATIONS) + (k - 1)

RECURSIVE SubsetsUpTo(_, _)
SubsetsUpTo(S, n) ==
    IF n = 0 THEN {{}}
    ELSE LET P == SubsetsUpTo(S, n - 1)
         IN P \cup { p \cup {c} : p \in P, c \in S }

CurveTable(dates, cells) ==
    [ d \in dates |->
        [ dur \in { TREASURY_DURATIONS[k] : k \in 1..Len(TREASURY_DURATIONS) } |->
            IF <<d, DurationIndex(dur)>> \in cells
            THEN Some(RateAt(d, DurationIndex(dur))) ELSE None ] ]

\* the buckets a stored rate is drawn for: 1month, 6month, 2year and 30year
StoredBuckets == { k \in 1..Len(TREASURY_DURATIONS) :
                     TREASURY_DURATIONS[k] \in {"1month", "6month", "2year", "30year"} }

CurveTables ==
    UNION { { CurveTable(dates, cells) :
                cells \in SubsetsUpTo(dates \X StoredBuckets, MaxEntries) } :
            dates \in SUBSET Days }

EndDates == { d + t : d \in Days, t \in 0..(TicksPerDay - 1) }

\* end_date - start_date, in ticks: none, a part of a day either way, and
\* days around the thresholds of 1month, 3month, 2year and 30year
StartGaps ==
    { 0 - 1, 0, 31 * TicksPerDay + 1, 32 * TicksPerDay,
      367 * TicksPerDay, 3653 * TicksPerDay }

----------------------------------------------------------------------------
\* choose_treasury, one action per stretch of its body.

\* variant: the dates before end_day are walked oldest first
RegressionDays_OldestFirst(curves, day) ==
    SubSeq(DateIndex(curves), 1, searchsorted(DateIndex(curves), day))

\* search_days[i - 1::-1] with i = search_days.searchsorted(end_day)
RegressionDays(curves, day) ==
    ReverseSliceFrom(DateIndex(curves), searchsorted(DateIndex(curves), day) - 1)

\* variant: the warning waits for a distance of more than 2 trading days
WarnCondition_OverTwo(dist, days, day) ==
    /\ (dist = None \/ dist[1] > 2)
    /\ days[1] <= day
    /\ day <= days[Len(days)]

\* the condition under which the staleness warning is logged
WarnCondition(dist, days, day) ==
    /\ (dist = None \/ dist[1] > 1)
    /\ days[1] <= day
    /\ day <= days[Len(days)]

\* variant: the days are counted up to the normalised end day
ProratedReturn_FromEndDay(r, start, end) ==
    [num |-> r * (TimedeltaDays(NormalizeToMidnight(end), start) + 1), den |-> 365]

\* rate * (td.days + 1) / 365 with td = end_date - start_date
ProratedReturn(r, start, end) ==
    [num |-> r * (TimedeltaDays(end, start) + 1), den |-> 365]

\* the duration, the normalised end day, and the lookup at end_day
ExactLookup ==
    /\ pc = "start"
    /\ treasury_duration' = select_treasury_duration(start_date, end_date)
    /\ end_day' = Some(NormalizeToMidnight(end_date))
    /\ IF end_day'[1] \in DOMAIN treasury_curves
       THEN /\ rate' = get_treasury_rate(treasury_curves, treasury_duration', end_day'[1])
            /\ search_day' = IF rate' # None THEN end_day' ELSE None
            /\ consulted' = <<end_day'[1]>>
       ELSE UNCHANGED <<rate, search_day, consulted>>
    /\ pc' = "looked_up"
    /\ UNCHANGED <<treasury_curves, start_date, end_date, search_dist,
                   remaining, warned, result, error, rvars>>

\* `if not search_day` is false: nothing of the regression runs
SkipRegression ==
    /\ pc = "looked_up"
    /\ search_day # None
    /\ pc' = "finish"
    /\ UNCHANGED <<tvars, rvars>>

\* `if not search_day` is true: the iteration over the earlier dates starts
StartRegression ==
    /\ pc = "looked_up"
    /\ search_day = None
    /\ remaining' = RegressionDays(treasury_curves, end_day[1])
    /\ pc' = "regress"
    /\ UNCHANGED <<treasury_curves, start_date, end_date, treasury_duration,
                   end_day, search_day, rate, search_dist, consulted, warned,
                   result, error, rvars>>

\* one iteration of `for prev_day in search_days[i - 1::-1]`
RegressStep ==
    /\ pc = "regress"
    /\ remaining # <<>>
    /\ LET prev_day == Head(remaining) IN
       /\ rate' = get_treasury_rate(treasury_curves, treasury_duration, prev_day)
       /\ consulted' = Append(consulted, prev_day)
       /\ IF rate' # None
          THEN /\ search_day' = Some(prev_day)
               /\ \E tdd \in trading_day_distance(prev_day, end_date) :
                    IF DistanceAssertionHolds(tdd)
                    THEN /\ search_dist' = tdd
                         /\ pc' = "after_loop"
                         /\ error' = error
                    ELSE /\ search_dist' = search_dist
                         /\ pc' = "done"
                         /\ error' = "AssertionError"
               /\ remaining' = remaining
          ELSE /\ remaining' = Tail(remaining)
               /\ UNCHANGED <<search_day, search_dist, pc, error>>
    /\ UNCHANGED <<treasury_curves, start_date, end_date, treasury_duration,
                   end_day, warned, result, rvars>>

\* the iteration ran out of dates without a break
RegressionExhausted ==
    /\ pc = "regress"
    /\ remaining = <<>>
    /\ pc' = "after_loop"
    /\ UNCHANGED <<tvars, rvars>>

\* `if search_day:` after the loop, and the warning
AfterRegression ==
    /\ pc = "after_loop"
    /\ warned' = (/\ search_day # None
                  /\ WarnCondition(search_dist, DateIndex(treasury_curves), end_day[1]))
    /\ pc' = "finish"
    /\ UNCHANGED <<treasury_curves, start_date, end_date, treasury_duration,
                   end_day, search_day, rate, search_dist, remaining,
                   consulted, result, error, rvars>>

\* `if search_day: return rate * (td.days + 1) / 365`
Return ==
    /\ pc = "finish"
    /\ search_day # None
    /\ result' = Some(ProratedReturn(rate[1], start_date, end_date))
    /\ pc' = "done"
    /\ UNCHANGED <<treasury_curves, start_date, end_date, treasury_duration,
                   end_day, search_day, rate, search_dist, remaining,
                   consulted, warned, error, rvars>>

\* `raise Exception("No rate for end date ...")`
RaiseNoRate ==
    /\ pc = "finish"
    /\ search_day = None
    /\ error' = "NoRate"
    /\ pc' = "done"
    /\ UNCHANGED <<treasury_curves, start_date, end_date, treasury_duration,
                   end_day, search_day, rate, search_dist, remaining,
                   consulted, warned, result, rvars>>

----------------------------------------------------------------------------
\* Calendar dates of the return series: records [y, m, d].  The dates of
\* daily returns carry no time of day.

\* the first calendar year of the explored return series
FirstYear == 2003
\* the return series lie within MaxYears calendar years
MaxYears == 2
\* epoch_now() answers a value in 1..MaxClock
MaxClock == 2

IsLeapYear(y) == (y % 4 = 0 /\ y % 100 # 0) \/ y % 400 = 0

DaysInMonth(y, m) ==
    IF m = 2 THEN (IF IsLeapYear(y) THEN 29 ELSE 28)
    ELSE IF m \in {4, 6, 9, 11} THEN 30 ELSE 31

\* date.replace(day=1)
ReplaceDayOne(dt) == [dt EXCEPT !.d = 1]

\* dt + relativedelta(months=n): the month moves, the day is clipped to the
\* length of the month reached
AddMonths(dt, n) ==
    LET total == dt.y * 12 + (dt.m - 1) + n
        y2 == total \div 12
        m2 == (total % 12) + 1
    IN [y |-> y2, m |-> m2, d |-> Min(dt.d, DaysInMonth(y2, m2))]

\* dt - timedelta(days=1)
MinusOneDay(dt) ==
    IF dt.d > 1 THEN [dt EXCEPT !.d = dt.d - 1]
    ELSE IF dt.m > 1 THEN [y |-> dt.y, m |-> dt.m - 1, d |-> DaysInMonth(dt.y, dt.m - 1)]
    ELSE [y |-> dt.y - 1, m |-> 12, d |-> 31]

\* a > b on dates
DateAfter(a, b) ==
    \/ a.y > b.y
    \/ a.y = b.y /\ a.m > b.m
    \/ a.y = b.y /\ a.m = b.m /\ a.d > b.d

----------------------------------------------------------------------------
\* RiskReport.periods_in_range

\* RiskMetricsPeriod(start_date=cur_start, end_date=cur_end, ...): the period
\* is kept by its two dates
RiskMetricsPeriod(cur_start, cur_end) == [start_date |-> cur_start, end_date |-> cur_end]

\* variant: the day is not taken back
WindowEnd_NoDayBack(cur_start, months_per) == AddMonths(cur_start, months_per)

\* cur_end = cur_start + relativedelta(months=months_per) - one_day
WindowEnd(cur_start, months_per) == MinusOneDay(AddMonths(cur_start, months_per))

\* variant: the series ends where its last date is
SeriesEnd_AsGiven(end) == end

\* the_end = end.replace(day=1) + relativedelta(months=1) - one_day
SeriesEnd(end) == MinusOneDay(AddMonths(ReplaceDayOne(end), 1))

\* variant: the windows advance by two months
NextStart_TwoMonths(cur_start) == AddMonths(cur_start, 2)

\* cur_start = cur_start + relativedelta(months=1)
NextStart(cur_start) == AddMonths(cur_start, 1)

\* the `while True` loop
RECURSIVE PeriodsLoop(_, _, _, _)
PeriodsLoop(months_per, cur_start, the_end, ends) ==
    LET cur_end == WindowEnd(cur_start, months_per) IN
    IF DateAfter(cur_end, the_end) THEN ends
    ELSE PeriodsLoop(months_per, NextStart(cur_start), the_end,
                     Append(ends, RiskMetricsPeriod(cur_start, cur_end)))

\* variant: the empty series is not checked for
periods_in_range_Unchecked(returns, months_per, start, end) ==
    PeriodsLoop(months_per, ReplaceDayOne(start), SeriesEnd(end), <<>>)

periods_in_range(returns, months_per, start, end) ==
    LET cur_start == ReplaceDayOne(start) IN
    IF Len(returns) = 0 THEN <<>>
    ELSE PeriodsLoop(months_per, cur_start, SeriesEnd(end), <<>>)

----------------------------------------------------------------------------
\* RiskReport.__init__ and to_dict

\* the start_date and end_date of __init__
ReportRange(returns, params) ==
    IF Len(returns) = 0
    THEN [start_date |-> params.period_start, end_date |-> params.period_end]
    ELSE [start_date |-> returns[1], end_date |-> returns[Len(returns)]]

\* RiskMetricsPeriod.to_dict(): the metrics of the period under its label
PeriodToDict(p) == [period_label |-> <<p.end_date.y, p.end_date.m>>]

ToDictList(periods) == [k \in 1..Len(periods) |-> PeriodToDict(periods[k])]

Construct ==
    /\ pc = "new"
    /\ \E now \in 1..MaxClock : created' = Some(now)
    /\ range' = Some(ReportRange(algorithm_returns, sim_params))
    /\ month_periods' = periods_in_range(algorithm_returns, 1,
                            range'[1].start_date, range'[1].end_date)
    /\ three_month_periods' = periods_in_range(algorithm_returns, 3,
                            range'[1].start_date, range'[1].end_date)
    /\ six_month_periods' = periods_in_range(algorithm_returns, 6,
                            range'[1].start_date, range'[1].end_date)
    /\ year_periods' = periods_in_range(algorithm_returns, 12,
                            range'[1].start_date, range'[1].end_date)
    /\ pc' = "constructed"
    /\ UNCHANGED <<algorithm_returns, sim_params, exported, tvars>>

to_dict ==
    /\ pc = "constructed"
    /\ exported' = Some([one_month |-> ToDictList(month_periods),
                         three_month |-> ToDictList(three_month_periods),
                         six_month |-> ToDictList(six_month_periods),
                         twelve_month |-> ToDictList(year_periods),
                         created |-> created[1]])
    /\ pc' = "exported"
    /\ UNCHANGED <<algorithm_returns, sim_params, created, range, month_periods,
                   three_month_periods, six_month_periods, year_periods, tvars>>

\* a call of select_treasury_duration on its own
SelectDuration ==
    /\ pc = "select"
    /\ treasury_duration' = select_treasury_duration(start_date, end_date)
    /\ pc' = "selected"
    /\ UNCHANGED <<treasury_curves, start_date, end_date, end_day, search_day,
                   rate, search_dist, remaining, consulted, warned, result,
                   error, rvars>>

----------------------------------------------------------------------------
\* The inputs of RiskReport.

Months == { [y |-> y, m |-> m] : y \in FirstYear..(FirstYear + MaxYears - 1), m \in 1..12 }

\* the first, a middle and the last day of every month
ReportDates ==
    UNION { { [y |-> ym.y, m |-> ym.m, d |-> d] : d \in {1, 15, DaysInMonth(ym.y, ym.m)} } :
            ym \in Months }

\* the return series: empty, of one date, or given by its first and last
\* dates (the code reads the length, the first and the last entry only); a
\* series of two dates starts in the first year
ReturnSeries ==
    {<<>>}
    \cup { <<dt>> : dt \in ReportDates }
    \cup { s \in { x \in ReportDates : x.y = FirstYear } \X ReportDates :
             DateAfter(s[2], s[1]) }

SimParamsChoices ==
    { [period_start |-> s, period_end |-> e] :
        s \in { x \in ReportDates : x.m = 2 /\ x.d = 15 },
        e \in { x \in ReportDates : x.m = 11 /\ x.d = 15 /\ x.y = FirstYear + MaxYears - 1 } }

----------------------------------------------------------------------------
\* Specifications.

TreasuryIdle ==
    /\ treasury_curves = <<>>
    /\ start_date = 0
    /\ end_date = 0

TreasuryLocalsInit ==
    /\ treasury_duration = ""
    /\ end_day = None
    /\ search_day = None
    /\ rate = None
    /\ search_dist = None
    /\ remaining = <<>>
    /\ consulted = <<>>
    /\ warned = FALSE
    /\ result = None
    /\ error = ""

ReportLocalsInit ==
    /\ created = None
    /\ range = None
    /\ month_periods = <<>>
    /\ three_month_periods = <<>>
    /\ six_month_periods = <<>>
    /\ year_periods = <<>>
    /\ exported = None

ReportIdle ==
    /\ algorithm_returns = <<>>
    /\ sim_params = CHOOSE p \in SimParamsChoices : TRUE
    /\ ReportLocalsInit

\* choose_treasury on every curve table, end date and start date of the bounds
Init ==
    /\ pc = "start"
    /\ treasury_curves \in CurveTables
    /\ end_date \in EndDates
    /\ \E gap \in StartGaps : start_date = end_date - gap
    /\ TreasuryLocalsInit
    /\ ReportIdle

Next ==
    \/ ExactLookup
    \/ SkipRegression
    \/ StartRegression
    \/ RegressStep
    \/ RegressionExhausted
    \/ AfterRegression
    \/ Return
    \/ RaiseNoRate

Spec == Init /\ [][Next]_vars

\* RiskReport on every return series and simulation period of the bounds
InitReport ==
    /\ pc = "new"
    /\ algorithm_returns \in ReturnSeries
    /\ sim_params \in SimParamsChoices
    /\ ReportLocalsInit
    /\ TreasuryIdle
    /\ TreasuryLocalsInit

NextReport == Construct \/ to_dict

SpecReport == InitReport /\ [][NextReport]_vars

\* select_treasury_duration on every elapsed time of the bounds
InitDuration ==
    /\ pc = "select"
    /\ treasury_curves = <<>>
    /\ start_date \in 0..(TicksPerDay - 1)
    /\ \E elapsed \in (0 - 2 * TicksPerDay)..(MaxElapsed * TicksPerDay) :
           end_date = start_date + elapsed
    /\ TreasuryLocalsInit
    /\ ReportIdle

NextDuration == SelectDuration

SpecDuration == InitDuration /\ [][NextDuration]_vars

----------------------------------------------------------------------------
\* Properties of choose_treasury (specification Spec).

\* position of the target duration in TREASURY_DURATIONS
TargetIndex == DurationIndex(treasury_duration)

\* the buckets at or above the target that hold a rate on a stored day
UsableBuckets(day) ==
    { k \in TargetIndex..Len(TREASURY_DURATIONS) :
        treasury_curves[day][TREASURY_DURATIONS[k]] # None }

\* the stored days with a rate in the target-or-longer buckets
UsableDays == { day \in DOMAIN treasury_curves : UsableBuckets(day) # {} }

\* the rate of the shortest usable bucket of a usable day
ShortestUsableRate(day) ==
    LET k == CHOOSE j \in UsableBuckets(day) : \A i \in UsableBuckets(day) : j <= i
    IN treasury_curves[day][TREASURY_DURATIONS[k]]

EndDayOf == NormalizeToMidnight(end_date)

\* the whole days the gaps of StartGaps amount to
WholeDaysOfGaps == {0 - 1, 0, 31, 32, 367, 3653}

FoundByRegression == search_day # None /\ search_day # Some(EndDayOf)

\* C1: choose_treasury fails with the 'no rate' error, and returns no rate,
\* whenever no snapshot dated at or before end_day holds a rate in the
\* target-or-longer buckets.
C1_NoRateWhenNothingUsable ==
    (pc = "done" /\ { day \in UsableDays : day <= EndDayOf } = {})
        => (error = "NoRate" /\ result = None)

\* C2: when end_day has no usable rate and an earlier snapshot has one, the
\* rate is that of the most recent usable snapshot before end_day; the dates
\* are consulted strictly backward from the rightmost date at or before
\* end_day down to the matched date, none skipped and none beyond it.
C2_Precondition ==
    /\ EndDayOf \notin UsableDays
    /\ \E day \in UsableDays : day < EndDayOf

C2_MostRecentUsableDay ==
    (pc = "done" /\ C2_Precondition) =>
        LET matched == CHOOSE day \in UsableDays :
                          /\ day < EndDayOf
                          /\ \A other \in UsableDays : other < EndDayOf => other <= day
        IN /\ search_day = Some(matched)
           /\ rate = ShortestUsableRate(matched)
           /\ result # None
           /\ \A k \in 1..(Len(consulted) - 1) : consulted[k] > consulted[k + 1]
           /\ { consulted[k] : k \in 1..Len(consulted) }
                = { day \in DOMAIN treasury_curves : matched <= day /\ day <= EndDayOf }

\* an unusable end_day and an unusable earlier date were both passed over
C2_Witness ==
    /\ pc = "done"
    /\ C2_Precondition
    /\ Len(consulted) >= 3
    /\ result # None

\* C4, as stated: the warning is logged whenever the rate was found by
\* regression, the matched date is more than 1 trading day from end_date and
\* the matched date lies within the table's date span; never when the rate
\* was found at end_day; and the returned value does not depend on it.
C4_Original ==
    (pc = "done" /\ error = "") =>
        LET days == DateIndex(treasury_curves)
            elapsed == CHOOSE n \in WholeDaysOfGaps :
                          /\ n * TicksPerDay <= end_date - start_date
                          /\ end_date - start_date < (n + 1) * TicksPerDay
        IN
        /\ ( /\ FoundByRegression
             /\ search_dist # None /\ search_dist[1] > 1
             /\ days[1] <= search_day[1] /\ search_day[1] <= days[Len(days)] )
           => warned
        /\ search_day = Some(EndDayOf) => ~warned
        /\ warned => result = Some([num |-> ShortestUsableRate(search_day[1])[1] * (elapsed + 1),
                                    den |-> 365])

\* C4, amended: the span condition is on end_day, not on the matched date.
C4_WarnsWhenEndDayInSpan ==
    (pc = "done" /\ error = "") =>
        LET days == DateIndex(treasury_curves)
            elapsed == CHOOSE n \in WholeDaysOfGaps :
                          /\ n * TicksPerDay <= end_date - start_date
                          /\ end_date - start_date < (n + 1) * TicksPerDay
        IN
        /\ ( /\ FoundByRegression
             /\ search_dist # None /\ search_dist[1] > 1
             /\ days[1] <= EndDayOf /\ EndDayOf <= days[Len(days)] )
           => warned
        /\ search_day = Some(EndDayOf) => ~warned
        /\ warned => result = Some([num |-> ShortestUsableRate(search_day[1])[1] * (elapsed + 1),
                                    den |-> 365])

\* the rate of a date 2 trading days before end_date is returned with a warning
C4_Witness ==
    /\ pc = "done"
    /\ warned
    /\ search_dist = Some(2)
    /\ FoundByRegression
    /\ result # None

\* C5: when end_day is stored and holds a rate at or above the target
\* duration, the rate used is that of the shortest such bucket, and no other
\* date is consulted.
C5_ShortestBucketAtEndDay ==
    (pc = "done" /\ EndDayOf \in UsableDays) =>
        /\ search_day = Some(EndDayOf)
        /\ rate = ShortestUsableRate(EndDayOf)
        /\ consulted = <<EndDayOf>>
        /\ result # None
        /\ error = ""

\* the target bucket is absent on end_day, a shorter and a longer one are not
C5_Witness ==
    /\ pc = "done"
    /\ EndDayOf \in UsableDays
    /\ treasury_curves[EndDayOf][treasury_duration] = None
    /\ \E k \in 1..(TargetIndex - 1) :
          treasury_curves[EndDayOf][TREASURY_DURATIONS[k]] # None
    /\ result # None

\* C6: a returned value is selected_rate * (days + 1) / 365, days being the
\* whole days of end_date - start_date with end_date as given, on both paths.
C6_ProRatedLinearly ==
    (pc = "done" /\ result # None) =>
        /\ rate = ShortestUsableRate(search_day[1])
        /\ result[1].den = 365
        /\ \E n \in WholeDaysOfGaps :
              /\ n * TicksPerDay <= end_date - start_date
              /\ end_date - start_date < (n + 1) * TicksPerDay
              /\ result[1].num = rate[1] * (n + 1)

\* a rate found by regression, for an end_date with a time of day, over
\* more than a month
C6_Witness ==
    /\ pc = "done"
    /\ result # None
    /\ FoundByRegression
    /\ end_date # EndDayOf
    /\ end_date - start_date > 31 * TicksPerDay
    /\ rate[1] > 0

----------------------------------------------------------------------------
\* Properties of select_treasury_duration (specification SpecDuration).

\* the inclusive thresholds, in days, of the nine buckets below 30year
BucketThresholds == <<31, 93, 186, 366, 731, 1096, 1827, 2557, 3652>>

\* the bucket position the thresholds give to d elapsed days
ThresholdBucket(d) ==
    1 + Cardinality({ k \in 1..Len(BucketThresholds) : d > BucketThresholds[k] })

\* the whole days of end_date - start_date
ElapsedDays == TimedeltaDays(end_date, start_date)

\* the elapsed days a result for d days is compared with: the next day, both
\* sides of every threshold, and the largest explored
LaterDays(d) ==
    { later \in {d + 1, MaxElapsed}
            \cup { BucketThresholds[k] : k \in 1..Len(BucketThresholds) }
            \cup { BucketThresholds[k] + 1 : k \in 1..Len(BucketThresholds) } :
        later >= d }

\* C9: select_treasury_duration answers, for every elapsed time (0 and less
\* included), the bucket of the inclusive thresholds 31, 93, 186, 366, 731,
\* 1096, 1827, 2557, 3652, else 30year; and it is monotonic: a longer
\* elapsed time never gets a shorter bucket (compared here with the next day
\* and with the days around every threshold; a function on the integers
\* that is monotonic from each day to the next is monotonic).
C9_ThresholdsAndMonotonic ==
    pc = "selected" =>
        \A d \in {ElapsedDays} : \A found \in {DurationIndex(treasury_duration)} :
            /\ found = ThresholdBucket(d)
            /\ \A later \in LaterDays(d) :
                  found <= DurationIndex(select_treasury_duration(0, later * TicksPerDay))

\* an elapsed time exactly on the 7year threshold, and one of no days at all
C9_Witness ==
    /\ pc = "selected"
    /\ ElapsedDays = 2557
    /\ treasury_duration = "7year"

----------------------------------------------------------------------------
\* Properties of RiskReport (specification SpecReport).

\* months since year 0 of the month of a date
MonthNumber(dt) == dt.y * 12 + dt.m

FirstReturnDate == algorithm_returns[1]

LastReturnDate == algorithm_returns[Len(algorithm_returns)]

\* calendar months between the months of the first and the last return
MonthsApart == MonthNumber(LastReturnDate) - MonthNumber(FirstReturnDate)

Collections ==
    << [months_per |-> 1, periods |-> month_periods],
       [months_per |-> 3, periods |-> three_month_periods],
       [months_per |-> 6, periods |-> six_month_periods],
       [months_per |-> 12, periods |-> year_periods] >>

Constructed == pc \in {"constructed", "exported"}

\* C3, as stated: a series whose first and last dates are 12 or 13 calendar
\* months apart has at most one twelve-month period.
C3_Original ==
    (Constructed /\ Len(algorithm_returns) > 0 /\ MonthsApart \in {12, 13})
        => Len(year_periods) \in {0, 1}

\* C3, amended: such a series has 2 twelve-month periods when the dates are
\* 12 calendar months apart and 3 when they are 13 apart.
C3_TwelveMonthCount ==
    (Constructed /\ Len(algorithm_returns) > 0 /\ MonthsApart \in {12, 13})
        => Len(year_periods) = MonthsApart - 10

\* a series from the middle of a month to the middle of the same month a year later
C3_Witness ==
    /\ Constructed
    /\ Len(algorithm_returns) > 0
    /\ MonthsApart = 12
    /\ FirstReturnDate.d = 15
    /\ LastReturnDate.d = 15
    /\ Len(year_periods) = 2

\* C7: every period of every window length starts on the first of a month,
\* ends on the last day of the month months_per - 1 later, and not after the
\* last day of the month of the series' final date; consecutive periods
\* start one calendar month apart, ascending.
C7_CalendarAlignedPeriods ==
    (Constructed /\ Len(algorithm_returns) > 0) =>
        \A c \in 1..Len(Collections) :
            LET w == Collections[c].months_per
                ps == Collections[c].periods
            IN /\ \A k \in 1..Len(ps) :
                     /\ ps[k].start_date.d = 1
                     /\ ps[k].end_date.d = DaysInMonth(ps[k].end_date.y, ps[k].end_date.m)
                     /\ MonthNumber(ps[k].end_date) = MonthNumber(ps[k].start_date) + w - 1
                     /\ MonthNumber(ps[k].end_date) <= MonthNumber(LastReturnDate)
               /\ \A k \in 1..(Len(ps) - 1) :
                     MonthNumber(ps[k + 1].start_date) = MonthNumber(ps[k].start_date) + 1

\* several six-month periods, one of them ending in a leap February
C7_Witness ==
    /\ Constructed
    /\ Len(six_month_periods) >= 2
    /\ LastReturnDate.d = 15
    /\ \E k \in 1..Len(six_month_periods) :
          six_month_periods[k].end_date.m = 2 /\ six_month_periods[k].end_date.d = 29

\* C8: with an empty series the range is the simulation period, all four
\* collections are empty and to_dict gives four empty arrays and the
\* creation time; with a non-empty series the range is its first and last
\* dates, whatever the simulation period.
C8_EmptySeries ==
    Constructed =>
        IF Len(algorithm_returns) = 0
        THEN /\ range = Some([start_date |-> sim_params.period_start,
                              end_date |-> sim_params.period_end])
             /\ \A c \in 1..Len(Collections) : Collections[c].periods = <<>>
             /\ created # None
             /\ pc = "exported" =>
                    exported = Some([one_month |-> <<>>, three_month |-> <<>>,
                                     six_month |-> <<>>, twelve_month |-> <<>>,
                                     created |-> created[1]])
        ELSE range = Some([start_date |-> FirstReturnDate, end_date |-> LastReturnDate])

\* an empty series exported, for a simulation period of more than a year
C8_Witness ==
    /\ pc = "exported"
    /\ Len(algorithm_returns) = 0
    /\ MonthNumber(sim_params.period_end) - MonthNumber(sim_params.period_start) >= 12

\* C10: a non-empty series spanning M calendar months gives exactly
\* max(0, M - w + 1) periods of w months, the first starting on the first day
\* of the month of the series' first date; a series inside one month gives
\* one one-month period, that month from its first to its last day.
C10_PeriodCount ==
    (Constructed /\ Len(algorithm_returns) > 0) =>
        LET M == MonthsApart + 1 IN
        /\ \A c \in 1..Len(Collections) :
              LET w == Collections[c].months_per
                  ps == Collections[c].periods
              IN /\ Len(ps) = (IF M - w + 1 > 0 THEN M - w + 1 ELSE 0)
                 /\ Len(ps) > 0 =>
                      ps[1].start_date = [y |-> FirstReturnDate.y, m |-> FirstReturnDate.m, d |-> 1]
        /\ M = 1 =>
              month_periods =
                << [start_date |-> [y |-> FirstReturnDate.y, m |-> FirstReturnDate.m, d |-> 1],
                    end_date |-> [y |-> FirstReturnDate.y, m |-> FirstReturnDate.m,
                                  d |-> DaysInMonth(FirstReturnDate.y, FirstReturnDate.m)]] >>

\* a series inside one month, from its middle on, and too short for the
\* longer windows
C10_Witness ==
    /\ Constructed
    /\ Len(algorithm_returns) = 2
    /\ MonthsApart = 0
    /\ FirstReturnDate.d = 15
    /\ Len(month_periods) = 1
    /\ Len(three_month_periods) = 0

====
